---- MODULE Spec2Model ----
(***************************************************************************)
(* read_all_csvs (utils/io_helpers.py) as a state machine.                 *)
(*                                                                         *)
(* Path strings are sequences of one-character strings, so that the path   *)
(* functions the code calls (os.path.join, os.path.basename,               *)
(* os.path.splitext) and the pattern matching of glob.glob are computed    *)
(* character by character, as the POSIX builds of the Python library do.   *)
(* A call runs from pc = "isdir" to pc = "returned" or pc = "raised".      *)
(***************************************************************************)
EXTENDS Naturals, Sequences, FiniteSets

VARIABLES
    fs,            \* the filesystem: a set of nodes [path, kind, content]
    fs0,           \* the filesystem when the call started
    folder_path,   \* the argument of read_all_csvs
    pc,            \* position of the call in the function body
    csv_paths,     \* line 37: the list glob.glob returned
    idx,           \* number of completed iterations of the for loop
    path,          \* line 46: the loop variable
    key,           \* line 49
    df,            \* line 53
    dataframes,    \* line 43: the mapping being built
    result,        \* the mappings handed to the caller: {} or {dataframes}
    err,           \* the exception raised to the caller
    open,          \* the file handles that are open
    reads,         \* the paths handed to pd.read_csv, in order
    listed         \* whether glob.glob has enumerated the filesystem

vars == <<fs, fs0, folder_path, pc, csv_paths, idx, path, key, df,
          dataframes, result, err, open, reads, listed>>

\* Most files (beside the fixed top-level entries) a filesystem holds.
MaxFiles == 3

-----------------------------------------------------------------------------
(* Strings *)

Slash == "/"
Dot == "."

EndsWith(s, suf) ==
    /\ Len(suf) <= Len(s)
    /\ SubSeq(s, Len(s) - Len(suf) + 1, Len(s)) = suf

\* str.rfind, 1-based: the last index of c in s, 0 when there is none.
RFind(s, c) ==
    LET hits == {i \in 1..Len(s) : s[i] = c}
    IN  IF hits = {} THEN 0 ELSE CHOOSE i \in hits : \A j \in hits : j <= i

RECURSIVE RStripSlash(_)
RStripSlash(s) ==
    IF s # <<>> /\ s[Len(s)] = Slash
    THEN RStripSlash(SubSeq(s, 1, Len(s) - 1))
    ELSE s

\* posixpath.join(a, b)
Join(a, b) ==
    IF b # <<>> /\ b[1] = Slash THEN b
    ELSE IF a = <<>> \/ a[Len(a)] = Slash THEN a \o b
    ELSE a \o <<Slash>> \o b

\* posixpath.split(p): <<head, tail>>
Split(p) ==
    LET i == RFind(p, Slash)
        head == SubSeq(p, 1, i)
        tail == SubSeq(p, i + 1, Len(p))
    IN  <<IF RStripSlash(head) = <<>> THEN head ELSE RStripSlash(head), tail>>

\* posixpath.basename(p)
Basename(p) == SubSeq(p, RFind(p, Slash) + 1, Len(p))

\* posixpath.splitext(p): <<root, ext>>; the leading dots of the last
\* component are never taken as the start of an extension.
SplitExt(p) ==
    LET sepIndex == RFind(p, Slash)
        dotIndex == RFind(p, Dot)
    IN  IF /\ dotIndex > sepIndex
           /\ \E k \in (sepIndex + 1)..(dotIndex - 1) : p[k] # Dot
        THEN <<SubSeq(p, 1, dotIndex - 1), SubSeq(p, dotIndex, Len(p))>>
        ELSE <<p, <<>> >>

-----------------------------------------------------------------------------
(* fnmatch and glob *)

\* glob.has_magic
HasMagic(s) == \E i \in 1..Len(s) : s[i] \in {"*", "?", "["}

\* glob._ishidden
IsHidden(name) == name # <<>> /\ name[1] = Dot

\* fnmatch.translate's scan of a bracket expression that opens at p[j]: the
\* index of the "]" that closes it, 0 when it is never closed (the "[" is
\* then a literal character).
ClassEnd(p, j) ==
    LET k1 == IF j + 1 <= Len(p) /\ p[j + 1] = "!" THEN j + 2 ELSE j + 1
        k2 == IF k1 <= Len(p) /\ p[k1] = "]" THEN k1 + 1 ELSE k1
        closes == {i \in k2..Len(p) : p[i] = "]"}
    IN  IF closes = {} THEN 0
        ELSE CHOOSE i \in closes : \A m \in closes : i <= m

\* Whether character c is in the bracket expression p[j..e] (character
\* ranges "a-z" are not modelled: no modelled path holds a "-").
InClass(c, p, j, e) ==
    LET neg == p[j + 1] = "!"
        first == IF neg THEN j + 2 ELSE j + 1
        isin == \E i \in first..(e - 1) : p[i] = c
    IN  IF neg THEN ~isin ELSE isin

\* fnmatch.fnmatchcase(n, p) from positions i of the name and j of the
\* pattern (posixpath.normcase is the identity: the match is case-sensitive).
RECURSIVE Match(_, _, _, _)
Match(n, i, p, j) ==
    IF j > Len(p) THEN i > Len(n)
    ELSE IF p[j] = "*"
         THEN Match(n, i, p, j + 1) \/ (i <= Len(n) /\ Match(n, i + 1, p, j))
    ELSE IF p[j] = "?"
         THEN i <= Len(n) /\ Match(n, i + 1, p, j + 1)
    ELSE IF p[j] = "[" /\ ClassEnd(p, j) # 0
         THEN /\ i <= Len(n)
              /\ InClass(n[i], p, j, ClassEnd(p, j))
              /\ Match(n, i + 1, p, ClassEnd(p, j) + 1)
    ELSE i <= Len(n) /\ n[i] = p[j] /\ Match(n, i + 1, p, j + 1)

Fnmatch(name, pat) == Match(name, 1, pat, 1)

-----------------------------------------------------------------------------
(* The filesystem *)

Exists(f, p) == \E n \in f : n.path = p

\* os.path.isdir
IsDir(f, p) == \E n \in f : n.path = p /\ n.kind = "dir"

Node(f, p) == CHOOSE n \in f : n.path = p

\* The nodes directly inside directory d ("" is the working directory).
Children(f, d) ==
    IF d = <<>> THEN {n \in f : RFind(n.path, Slash) = 0}
    ELSE IF IsDir(f, d)
         THEN {n \in f : RFind(n.path, Slash) # 0 /\ Split(n.path)[1] = d}
    ELSE {}

\* glob._listdir: the names in d, directories only when dironly; a d that
\* cannot be scanned lists nothing.
Listdir(f, d, dironly) ==
    {Basename(n.path) : n \in {c \in Children(f, d) : ~dironly \/ c.kind = "dir"}}

\* glob._glob1
Glob1(f, d, pattern, dironly) ==
    {x \in Listdir(f, d, dironly) :
        /\ IsHidden(pattern) \/ ~IsHidden(x)
        /\ Fnmatch(x, pattern)}

\* glob._glob0
Glob0(f, d, basename, dironly) ==
    IF basename = <<>>
    THEN IF IsDir(f, d) THEN {basename} ELSE {}
    ELSE IF Exists(f, Join(d, basename)) THEN {basename} ELSE {}

\* glob._iglob: the set of paths matching pathname (their order is the
\* filesystem's, see Orderings).
RECURSIVE IGlob(_, _, _)
IGlob(f, pathname, dironly) ==
    LET dirname == Split(pathname)[1]
        basename == Split(pathname)[2]
        InDir(d) == IF HasMagic(basename)
                    THEN Glob1(f, d, basename, dironly)
                    ELSE Glob0(f, d, basename, dironly)
    IN  IF ~HasMagic(pathname)
        THEN IF basename # <<>>
             THEN IF Exists(f, pathname) THEN {pathname} ELSE {}
             ELSE IF IsDir(f, dirname) THEN {pathname} ELSE {}
        ELSE IF dirname = <<>>
             THEN Glob1(f, <<>>, basename, dironly)
        ELSE LET dirs == IF dirname # pathname /\ HasMagic(dirname)
                         THEN IGlob(f, dirname, TRUE)
                         ELSE {dirname}
             IN  UNION {{Join(d, x) : x \in InDir(d)} : d \in dirs}

\* glob.glob
Glob(f, pathname) == IGlob(f, pathname, FALSE)

\* The lists glob.glob can return for the set S of matches: os.scandir
\* gives no order, and the matches of one directory come together.
Orderings(S) ==
    {s \in [1..Cardinality(S) -> S] :
        /\ \A i, j \in 1..Cardinality(S) : i # j => s[i] # s[j]
        /\ \A i, j, k \in 1..Cardinality(S) :
              (i < j /\ j < k /\ Split(s[i])[1] = Split(s[k])[1])
                  => Split(s[j])[1] = Split(s[i])[1]}

-----------------------------------------------------------------------------
(* pandas.read_csv *)

SalesCsv == "id,amount\n1,10\n2,20\n"
OtherCsv == "x\n7\n"
EmptyCsv == ""

NoException == [type |-> "None", text |-> ""]

\* What pd.read_csv makes of a file's content: a table (named columns,
\* ordered rows) or the parser's exception.
ParseCsv(content) ==
    IF content = SalesCsv
    THEN [ok |-> TRUE, exc |-> NoException,
          table |-> [columns |-> <<"id", "amount">>,
                     rows |-> << <<1, 10>>, <<2, 20>> >>]]
    ELSE IF content = OtherCsv
    THEN [ok |-> TRUE, exc |-> NoException,
          table |-> [columns |-> <<"x">>, rows |-> << <<7>> >>]]
    ELSE [ok |-> FALSE,
          exc |-> [type |-> "EmptyDataError",
                   text |-> "No columns to parse from file"],
          table |-> [columns |-> <<>>, rows |-> <<>>]]

\* Opening p for reading: the exception open() raises, NoException when a
\* handle is obtained.
OpenError(f, p) ==
    IF ~Exists(f, p)
    THEN [type |-> "FileNotFoundError", text |-> "No such file or directory"]
    ELSE IF Node(f, p).kind = "dir"
    THEN [type |-> "IsADirectoryError", text |-> "Is a directory"]
    ELSE NoException

\* The outcome of pd.read_csv(p) as a whole.
ReadCsv(f, p) ==
    IF OpenError(f, p) # NoException
    THEN [ok |-> FALSE, exc |-> OpenError(f, p),
          table |-> [columns |-> <<>>, rows |-> <<>>]]
    ELSE ParseCsv(Node(f, p).content)

\* A read that opened p for writing would leave it truncated.
FsAfterTruncate(f, p) ==
    (f \ {Node(f, p)}) \cup {[Node(f, p) EXCEPT !.content = ""]}

\* pd.read_csv opens p for reading only: the filesystem after the read.
FsAfterRead(f, p) == f

\* A reader that closes its handle only when the parse succeeds.
HandlesLeakOnError(h, p, ok) == IF ok THEN h \ {p} ELSE h

\* pd.read_csv releases its handle whether or not the parse succeeded.
HandlesAfterRead(h, p, ok) == h \ {p}

-----------------------------------------------------------------------------
(* The filesystems and arguments a call is checked on *)

D1 == <<"d", "1">>
D2 == <<"d", "2">>
DB == <<"d", "[", "1", "2", "]">>
RegularFile == <<"f">>
Missing == <<"m">>

ACsv == <<"a", ".", "c", "s", "v">>
ABCsv == <<"a", ".", "b", ".", "c", "s", "v">>
HiddenCsv == <<".", "h", ".", "c", "s", "v">>
UpperCsv == <<"X", ".", "C", "S", "V">>
NotesTxt == <<"n", ".", "t", "x", "t">>
SubCsv == <<"s", ".", "c", "s", "v">>

CsvPatternName == <<"*", ".", "c", "s", "v">>
CsvSuffix == <<".", "c", "s", "v">>

Contents == {SalesCsv, OtherCsv, EmptyCsv}

\* Entries every modelled filesystem holds: three directories (one whose
\* name holds glob's metacharacters) and a regular file.
TopNodes ==
    {[path |-> d, kind |-> "dir", content |-> ""] : d \in {D1, D2, DB}}
        \cup {[path |-> RegularFile, kind |-> "file", content |-> SalesCsv]}

FilePaths ==
    {Join(D1, n) : n \in {ACsv, ABCsv, HiddenCsv, UpperCsv, NotesTxt}}
        \cup {Join(D2, n) : n \in {ACsv, ABCsv}}
        \cup {Join(DB, ACsv)}

SubDirPath == Join(D1, SubCsv)
SubDirChild == Join(SubDirPath, ACsv)

SlotPaths == FilePaths \cup {SubDirPath, SubDirChild}

RECURSIVE SubsetsUpTo(_, _)
SubsetsUpTo(S, k) ==
    IF k = 0 \/ S = {} THEN {{}}
    ELSE LET x == CHOOSE y \in S : TRUE
         IN  SubsetsUpTo(S \ {x}, k)
                 \cup {T \cup {x} : T \in SubsetsUpTo(S \ {x}, k - 1)}

SlotNode(p, c) ==
    IF p = SubDirPath THEN [path |-> p, kind |-> "dir", content |-> ""]
    ELSE [path |-> p, kind |-> "file", content |-> c]

Filesystems ==
    UNION {
        {TopNodes \cup {SlotNode(p, c[p]) : p \in P} :
            c \in {g \in [P -> Contents] :
                      /\ SubDirPath \in P => g[SubDirPath] = EmptyCsv
                      /\ SubDirChild \in P => g[SubDirChild] = SalesCsv}} :
        P \in {Q \in SubsetsUpTo(SlotPaths, MaxFiles) :
                  SubDirChild \in Q => SubDirPath \in Q}}

FolderPaths == {D1, DB, RegularFile, Missing}

-----------------------------------------------------------------------------
(* read_all_csvs *)

NoError == [type |-> "None", path |-> <<>>, detail |-> "", cause |-> NoException]

EmptyMap == [k \in {} |-> 0]

NoTable == [columns |-> <<>>, rows |-> <<>>]

\* line 36: csv_pattern
CsvPattern == Join(folder_path, CsvPatternName)

\* lines 48-49: the key the loop derives for a path
KeyOf(p) == SplitExt(Basename(p))[1]

\* dataframes.setdefault(key, df): the first table under a key is kept.
PutIfAbsent(d, k, v) ==
    [x \in DOMAIN d \cup {k} |-> IF x \in DOMAIN d THEN d[x] ELSE v]

\* dataframes[key] = df
Put(d, k, v) == [x \in DOMAIN d \cup {k} |-> IF x = k THEN v ELSE d[x]]

\* RuntimeError(f"Erro ao ler '{path}'") with the cause dropped.
WrapErrorNoCause(p, e) ==
    [type |-> "RuntimeError", path |-> p, detail |-> "", cause |-> NoException]

\* line 56: RuntimeError(f"Erro ao ler '{path}': {e}") from e
WrapError(p, e) ==
    [type |-> "RuntimeError", path |-> p, detail |-> e.text, cause |-> e]

Init ==
    /\ fs \in Filesystems
    /\ fs0 = fs
    /\ folder_path \in FolderPaths
    /\ pc = "isdir"
    /\ csv_paths = <<>>
    /\ idx = 0
    /\ path = <<>>
    /\ key = <<>>
    /\ df = NoTable
    /\ dataframes = EmptyMap
    /\ result = {}
    /\ err = NoError
    /\ open = {}
    /\ reads = <<>>
    /\ listed = FALSE

\* The check of lines 32-33 made with os.path.exists.
CheckExists ==
    /\ pc = "isdir"
    /\ IF ~Exists(fs, folder_path)
       THEN /\ pc' = "raised"
            /\ err' = [type |-> "FileNotFoundError", path |-> folder_path,
                       detail |-> "", cause |-> NoException]
       ELSE /\ pc' = "glob"
            /\ err' = err
    /\ UNCHANGED <<fs, fs0, folder_path, csv_paths, idx, path, key, df,
                   dataframes, result, open, reads, listed>>

\* lines 32-33
CheckIsDir ==
    /\ pc = "isdir"
    /\ IF ~IsDir(fs, folder_path)
       THEN /\ pc' = "raised"
            /\ err' = [type |-> "FileNotFoundError", path |-> folder_path,
                       detail |-> "", cause |-> NoException]
       ELSE /\ pc' = "glob"
            /\ err' = err
    /\ UNCHANGED <<fs, fs0, folder_path, csv_paths, idx, path, key, df,
                   dataframes, result, open, reads, listed>>

\* lines 36-37
GlobCsvs ==
    /\ pc = "glob"
    /\ \E s \in Orderings(Glob(fs, CsvPattern)) : csv_paths' = s
    /\ listed' = TRUE
    /\ pc' = "check"
    /\ UNCHANGED <<fs, fs0, folder_path, idx, path, key, df, dataframes,
                   result, err, open, reads>>

\* lines 40-43
CheckEmpty ==
    /\ pc = "check"
    /\ IF csv_paths = <<>>
       THEN /\ pc' = "raised"
            /\ err' = [type |-> "ValueError", path |-> folder_path,
                       detail |-> "", cause |-> NoException]
       ELSE /\ pc' = "loop"
            /\ err' = err
    /\ dataframes' = EmptyMap
    /\ UNCHANGED <<fs, fs0, folder_path, csv_paths, idx, path, key, df,
                   result, open, reads, listed>>

\* lines 46-49, and line 61 when the list is exhausted
LoopNext ==
    /\ pc = "loop"
    /\ IF idx < Len(csv_paths)
       THEN /\ path' = csv_paths[idx + 1]
            /\ key' = KeyOf(csv_paths[idx + 1])
            /\ pc' = "read"
            /\ result' = result
       ELSE /\ pc' = "returned"
            /\ result' = {dataframes}
            /\ UNCHANGED <<path, key>>
    /\ UNCHANGED <<fs, fs0, folder_path, csv_paths, idx, df, dataframes,
                   err, open, reads, listed>>

\* An except clause that skips the file and goes on with the next.
ExceptSkip(p, e) ==
    /\ pc' = "loop"
    /\ err' = err
    /\ idx' = idx + 1

\* lines 54-56: the except clause
ExceptHandler(p, e) ==
    /\ pc' = "raised"
    /\ err' = WrapError(p, e)
    /\ idx' = idx

\* line 53: pd.read_csv(path) opens the file
ReadOpen ==
    /\ pc = "read"
    /\ reads' = Append(reads, path)
    /\ IF OpenError(fs, path) # NoException
       THEN /\ ExceptHandler(path, OpenError(fs, path))
            /\ open' = open
       ELSE /\ open' = open \cup {path}
            /\ pc' = "parse"
            /\ UNCHANGED <<err, idx>>
    /\ UNCHANGED <<fs, fs0, folder_path, csv_paths, path, key, df,
                   dataframes, result, listed>>

\* line 53: pd.read_csv(path) reads the file, closes it and returns or raises
ReadParse ==
    /\ pc = "parse"
    /\ fs' = FsAfterRead(fs, path)
    /\ open' = HandlesAfterRead(open, path, ReadCsv(fs, path).ok)
    /\ IF ReadCsv(fs, path).ok
       THEN /\ df' = ReadCsv(fs, path).table
            /\ pc' = "store"
            /\ UNCHANGED <<err, idx>>
       ELSE /\ ExceptHandler(path, ReadCsv(fs, path).exc)
            /\ df' = df
    /\ UNCHANGED <<fs0, folder_path, csv_paths, path, key, dataframes,
                   result, reads, listed>>

\* line 59
Store ==
    /\ pc = "store"
    /\ dataframes' = Put(dataframes, key, df)
    /\ idx' = idx + 1
    /\ pc' = "loop"
    /\ UNCHANGED <<fs, fs0, folder_path, csv_paths, path, key, df, result,
                   err, open, reads, listed>>

Next ==
    \/ CheckIsDir
    \/ GlobCsvs
    \/ CheckEmpty
    \/ LoopNext
    \/ ReadOpen
    \/ ReadParse
    \/ Store

Spec == Init /\ [][Next]_vars

Terminated == pc \in {"returned", "raised"}

-----------------------------------------------------------------------------
(* Vocabulary of the properties *)

Range(s) == {s[i] : i \in 1..Len(s)}

\* The entries directly inside directory d whose name ends with ".csv".
DirCsvPaths(f, d) ==
    {n.path : n \in {c \in Children(f, d) : EndsWith(Basename(c.path), CsvSuffix)}}

\* A file name with everything from its final "." onward removed.
StripFinalDot(name) == SubSeq(name, 1, RFind(name, Dot) - 1)

Parses(f, p) == ReadCsv(f, p).ok

\* The positions of csv_paths whose file cannot be read.
Failing == {i \in 1..Len(csv_paths) : ~Parses(fs, csv_paths[i])}

FirstFailing == CHOOSE i \in Failing : \A j \in Failing : i <= j

\* The mapping that last-write-wins gives for the first n paths of csv_paths.
LastWins(n) ==
    [k \in {KeyOf(csv_paths[i]) : i \in 1..n} |->
        LET last == CHOOSE i \in 1..n :
                        /\ KeyOf(csv_paths[i]) = k
                        /\ \A j \in 1..n : KeyOf(csv_paths[j]) = k => j <= i
        IN  ReadCsv(fs, csv_paths[last]).table]

-----------------------------------------------------------------------------
(* C1: for a directory whose entries are all valid CSV files named         *)
(* <something>.csv, the call returns a mapping with exactly one entry per  *)
(* file, each table stored under the file's name with everything from its  *)
(* final "." onward removed.                                               *)
C1_OneEntryPerFile ==
    LET files == Children(fs, folder_path)
    IN  (/\ Terminated
         /\ IsDir(fs, folder_path)
         /\ files # {}
         /\ \A n \in files :
               /\ n.kind = "file"
               /\ EndsWith(Basename(n.path), CsvSuffix)
               /\ ParseCsv(n.content).ok)
        => /\ pc = "returned"
           /\ \A m \in result :
                 /\ Cardinality(DOMAIN m) = Cardinality(files)
                 /\ DOMAIN m = {StripFinalDot(Basename(n.path)) : n \in files}
                 /\ \A n \in files :
                       m[StripFinalDot(Basename(n.path))]
                           = ParseCsv(n.content).table

(* C2: when folder_path is not an existing directory the call raises       *)
(* FileNotFoundError naming folder_path, and nothing was enumerated or     *)
(* read before that.                                                       *)
C2_NotFoundBeforeAnyRead ==
    ~IsDir(fs, folder_path)
        => /\ pc \in {"isdir", "raised"}
           /\ ~listed
           /\ reads = <<>>
           /\ open = {}
           /\ result = {}
           /\ pc = "raised" => /\ err.type = "FileNotFoundError"
                               /\ err.path = folder_path

C2_Witness ==
    /\ pc = "raised"
    /\ folder_path = RegularFile
    /\ Exists(fs, folder_path)
    /\ err.type = "FileNotFoundError"

(* C3: when folder_path is a directory with no entry whose name ends in    *)
(* ".csv", the call raises ValueError naming folder_path and reads no file.*)
C3_NoCsvIsInvalidInput ==
    (/\ Terminated
     /\ IsDir(fs, folder_path)
     /\ DirCsvPaths(fs, folder_path) = {})
        => /\ pc = "raised"
           /\ err.type = "ValueError"
           /\ err.path = folder_path
           /\ reads = <<>>

(* C4: when one of the matched entries cannot be parsed the call raises    *)
(* RuntimeError and returns no mapping, wherever the entry falls in the    *)
(* enumeration and however many files were parsed before it.               *)
C4_ParseFailureIsFatal ==
    /\ pc # "returned" => result = {}
    /\ (/\ Terminated
        /\ IsDir(fs, folder_path)
        /\ \E p \in Glob(fs, CsvPattern) : ~Parses(fs, p))
           => /\ pc = "raised"
              /\ err.type = "RuntimeError"
              /\ result = {}

C4_Witness ==
    /\ folder_path = D1
    /\ pc = "raised"
    /\ err.type = "RuntimeError"
    /\ idx >= 1
    /\ idx + 1 < Len(csv_paths)

(* C5: a RuntimeError names the first file of the enumeration that cannot  *)
(* be read, carries that file's own error as its cause and repeats the     *)
(* cause's message.                                                        *)
C5_ParseFailureKeepsCause ==
    (pc = "raised" /\ err.type = "RuntimeError")
        => /\ Failing # {}
           /\ err.path = csv_paths[FirstFailing]
           /\ err.cause = ReadCsv(fs, csv_paths[FirstFailing]).exc
           /\ err.cause # NoException
           /\ err.detail = err.cause.text

C5_Witness ==
    /\ folder_path = D1
    /\ pc = "raised"
    /\ err.type = "RuntimeError"
    /\ FirstFailing >= 2
    /\ \E i \in Failing : ReadCsv(fs, csv_paths[i]).exc # err.cause

(* C6: the files the call processes are exactly the entries directly       *)
(* inside folder_path whose name ends with the case-sensitive suffix       *)
(* ".csv", names that begin with "." included.                             *)
C6_ProcessesExactlyTheCsvEntries ==
    /\ \A i \in 1..Len(reads) : reads[i] \in DirCsvPaths(fs, folder_path)
    /\ pc = "returned" => DirCsvPaths(fs, folder_path) \subseteq Range(reads)
    /\ (pc = "raised" /\ err.type = "ValueError")
           => DirCsvPaths(fs, folder_path) = {}

(* C7: the filesystem is the same at every point of the call, and after    *)
(* it, as it was before the call.                                          *)
C7_FilesystemUnchanged == fs = fs0

C7_Witness ==
    /\ folder_path = D1
    /\ Terminated
    /\ Len(reads) >= 2

(* C8: each insert overwrites, so that the mapping holds under every key   *)
(* the table of the last file of the enumeration that derived this key.    *)
C8_LastWriteWins ==
    /\ pc \in {"loop", "read", "parse", "store"} => dataframes = LastWins(idx)
    /\ pc = "returned" => result = {LastWins(Len(csv_paths))}

C8_Witness ==
    /\ pc = "returned"
    /\ \E i, j \in 1..Len(csv_paths) :
          /\ i < j
          /\ KeyOf(csv_paths[i]) = KeyOf(csv_paths[j])
          /\ ReadCsv(fs, csv_paths[i]).table # ReadCsv(fs, csv_paths[j]).table

(* C9: files are read one after another in enumeration order, at most one  *)
(* is open at a time, none is opened after a failure and none is open when *)
(* the call returns or raises.                                             *)
C9_OneFileAtATime ==
    /\ Cardinality(open) <= 1
    /\ open # {} => (pc = "parse" /\ open = {path})
    /\ Terminated => open = {}
    /\ Len(reads) <= Len(csv_paths)
    /\ reads = SubSeq(csv_paths, 1, Len(reads))
    /\ (pc = "raised" /\ err.type = "RuntimeError")
           => reads[Len(reads)] = err.path

C9_Witness ==
    /\ folder_path = D1
    /\ pc = "raised"
    /\ err.type = "RuntimeError"
    /\ Len(reads) >= 2
    /\ Len(reads) < Len(csv_paths)
    /\ Node(fs, err.path).kind = "file"

(* C10: the outcome of a call is one of four, decided by the state of      *)
(* folder_path alone: FileNotFoundError iff it is no directory, ValueError *)
(* iff it is a directory holding no entry that matches *.csv, RuntimeError *)
(* iff it holds one and some such entry cannot be parsed, a non-empty      *)
(* mapping iff it holds one and all of them parse.                         *)
C10_OutcomeDecidedByFolder ==
    LET isdir == IsDir(fs, folder_path)
        matched == {Join(folder_path, x) :
                       x \in Glob1(fs, folder_path, CsvPatternName, FALSE)}
        bad == \E p \in matched : ~Parses(fs, p)
    IN  Terminated =>
           /\ (pc = "raised" /\ err.type = "FileNotFoundError") <=> ~isdir
           /\ (pc = "raised" /\ err.type = "ValueError")
                  <=> (isdir /\ matched = {})
           /\ (pc = "raised" /\ err.type = "RuntimeError")
                  <=> (isdir /\ matched # {} /\ bad)
           /\ pc = "returned" <=> (isdir /\ matched # {} /\ ~bad)
           /\ pc = "returned" => \A m \in result : DOMAIN m # {}

====
